---- MODULE Spec2Model ----
(***************************************************************************)
(* A model of the evaluation hook (detecter/evaluation/evalhook.py) and of *)
(* the dataset base class (detecter/dataset/custom.py).                    *)
(*                                                                         *)
(* Spec      : the hook of one worker, driven through a run and beyond it. *)
(* DistSpec  : the hooks of ws >= 2 parallel workers through a run, with   *)
(*             the steps of the run weakly fair.                           *)
(* DataSpec  : a dataset constructed from its annotations, then read by    *)
(*             one caller, whose steps are fair.                           *)
(* ConcSpec  : a dataset read by two callers at once.                      *)
(***************************************************************************)
EXTENDS Integers, Sequences, FiniteSets, TLC

\* ------------------------------------------------------------------ bounds
MaxUnits == 4      \* largest max_iter / max_epoch of the one-worker runs
MaxPeriod == 3     \* largest eval_period of the one-worker runs
MaxLate == 1       \* lifecycle events delivered to a hook after its run ended
NWorkers == 2      \* largest world size
DistUnits == 2     \* largest max_iter / max_epoch of the parallel runs
DistPeriod == 2    \* largest eval_period of the parallel runs
MaxRecords == 2    \* most records load_annotations returns

Workers == 1..NWorkers

\* ------------------------------------------------- metric values and results
\* A Python value a metric can hold: its type and its text.
Leaf(t, s) == [t |-> t, s |-> s]
NoLeaf == Leaf("NoneType", "None")

\* An entry of a (nested) dict: key -> scalar, or key -> dict of scalars.
\* Python dicts keep insertion order, so a dict is a sequence of entries.
Scalar(k, v) == [key |-> k, isdict |-> FALSE, val |-> v, sub |-> <<>>]
Nested(k, items) == [key |-> k, isdict |-> TRUE, val |-> NoLeaf, sub |-> items]

\* The strings float() parses, among the strings the callbacks return.
FloatLiterals == {"0.25", "1", "nan"}

\* float(v) succeeds (evalhook.py line 44).
float_ok(v) ==
    \/ v.t \in {"int", "float", "bool"}
    \/ (v.t = "str" /\ v.s \in FloatLiterals)

\* What an evaluation callback can return.
ResNone == [kind |-> "None", items |-> <<>>]
ResEmpty == [kind |-> "dict", items |-> <<>>]
ResList == [kind |-> "list", items |-> <<Scalar("0", Leaf("int", "1"))>>]
ResGood ==
    [kind |-> "dict",
     items |-> <<Nested("bbox", <<Scalar("mAP", Leaf("float", "0.5")),
                                   Scalar("AP50", Leaf("str", "0.25"))>>)>>]
ResBad ==
    [kind |-> "dict",
     items |-> <<Nested("bbox", <<Scalar("mAP", Leaf("str", "not-a-number"))>>)>>]
ResMixed ==
    [kind |-> "dict",
     items |-> <<Scalar("acc", Leaf("int", "1")),
                 Nested("bbox", <<Scalar("mAP", Leaf("str", "not-a-number")),
                                  Scalar("AP50", Leaf("float", "0.5"))>>)>>]
Results == <<ResNone, ResEmpty, ResList, ResGood, ResBad, ResMixed>>

\* Callbacks, each as the results (indices in Results) it can return: any
\* callback; the no-op `lambda: None` of the docstring's note; an evaluator.
AnyFunc == 1..Len(Results)
NoOpFunc == {1}
EvalFunc == {2, 4, 6}

\* Python truthiness of a callback result (`if results:`, line 36).
Truthy(r) == r.kind # "None" /\ Len(r.items) > 0

\* k/kk : v for every entry kk : v of a flattened sub-dict.
Qualify(k, flat) ==
    [i \in 1..Len(flat) |-> [key |-> k \o "/" \o flat[i].key, val |-> flat[i].val]]

\* The nested dict as a flat one with qualified keys, in insertion order.
RECURSIVE flatten_results_dict(_)
flatten_results_dict(items) ==
    IF Len(items) = 0 THEN <<>>
    ELSE LET n == Head(items)
             rest == flatten_results_dict(Tail(items))
         IN IF n.isdict
            THEN Qualify(n.key, flatten_results_dict(n.sub)) \o rest
            ELSE <<[key |-> n.key, val |-> n.val]>> \o rest

\* The first entry the loop of lines 42-49 fails on (0: none).
FirstBad(flat) ==
    IF \E i \in 1..Len(flat) : ~float_ok(flat[i].val)
    THEN CHOOSE i \in 1..Len(flat) :
            /\ ~float_ok(flat[i].val)
            /\ \A j \in 1..(i - 1) : float_ok(flat[j].val)
    ELSE 0

\* runner.storage.put_scalars(**flattened_results, smoothing_hint=False):
\* the store keeps the latest value of every key.
put_scalars(store, flat) ==
    {e \in store : \A i \in 1..Len(flat) : flat[i].key # e.key}
    \cup {[key |-> flat[i].key, val |-> flat[i].val, smoothing_hint |-> FALSE] :
             i \in 1..Len(flat)}

NoExc == [type |-> "none", key |-> "", val |-> NoLeaf]
Raise(type, k, v) == [type |-> type, key |-> k, val |-> v]

\* A plausible slip: the scalars are published as they are validated.
do_eval_publish_early(results, store) ==
    IF Truthy(results)
    THEN IF results.kind # "dict"
         THEN [exc |-> Raise("AssertionError", "", NoLeaf), storage |-> store,
               synchronize |-> FALSE]
         ELSE LET flat == flatten_results_dict(results.items)
                  b == FirstBad(flat)
              IN IF b # 0
                 THEN [exc |-> Raise("ValueError", flat[b].key, flat[b].val),
                       storage |-> put_scalars(store, SubSeq(flat, 1, b - 1)),
                       synchronize |-> FALSE]
                 ELSE [exc |-> NoExc, storage |-> put_scalars(store, flat),
                       synchronize |-> TRUE]
    ELSE [exc |-> NoExc, storage |-> store, synchronize |-> TRUE]

\* A plausible slip: the barrier is inside `if results:`.
do_eval_sync_inside(results, store) ==
    IF Truthy(results)
    THEN IF results.kind # "dict"
         THEN [exc |-> Raise("AssertionError", "", NoLeaf), storage |-> store,
               synchronize |-> FALSE]
         ELSE LET flat == flatten_results_dict(results.items)
                  b == FirstBad(flat)
              IN IF b # 0
                 THEN [exc |-> Raise("ValueError", flat[b].key, flat[b].val),
                       storage |-> store, synchronize |-> FALSE]
                 ELSE [exc |-> NoExc, storage |-> put_scalars(store, flat),
                       synchronize |-> TRUE]
    ELSE [exc |-> NoExc, storage |-> store, synchronize |-> FALSE]

\* EvalHook._do_eval on the callback's result: the exception it raises, the
\* metrics store it leaves, and whether it reaches dist_comm.synchronize().
do_eval(results, store) ==
    IF Truthy(results)
    THEN IF results.kind # "dict"
         THEN [exc |-> Raise("AssertionError", "", NoLeaf), storage |-> store,
               synchronize |-> FALSE]
         ELSE LET flat == flatten_results_dict(results.items)
                  b == FirstBad(flat)
              IN IF b # 0
                 THEN [exc |-> Raise("ValueError", flat[b].key, flat[b].val),
                       storage |-> store, synchronize |-> FALSE]
                 ELSE [exc |-> NoExc, storage |-> put_scalars(store, flat),
                       synchronize |-> TRUE]
    ELSE [exc |-> NoExc, storage |-> store, synchronize |-> TRUE]

\* ------------------------------------------------------ the gating conditions
\* A plausible slip: the periodic path does not leave the last iteration to
\* after_run.
after_val_iter_no_exclusion(be, p, it, mx) ==
    /\ ~be
    /\ LET next_iter == it + 1
       IN p > 0 /\ next_iter % p = 0

\* EvalHook.after_val_iter: whether it calls _do_eval.
after_val_iter(be, p, it, mx) ==
    /\ ~be
    /\ LET next_iter == it + 1
       IN /\ (p > 0 /\ next_iter % p = 0)
          /\ next_iter # mx

\* A plausible slip: the periodic path does not leave the last epoch to
\* after_run.
after_val_epoch_no_exclusion(be, p, ep, mx) ==
    /\ be
    /\ LET next_epoch == ep + 1
       IN p > 0 /\ next_epoch % p = 0

\* EvalHook.after_val_epoch: whether it calls _do_eval.
after_val_epoch(be, p, ep, mx) ==
    /\ be
    /\ LET next_epoch == ep + 1
       IN /\ (p > 0 /\ next_epoch % p = 0)
          /\ next_epoch # mx

\* EvalHook.after_run: whether it calls _do_eval.  self.runner and
\* self.trainer (line 77) both name the hook's runner.
after_run(be, ep, mxe, it, mxi) ==
    IF be THEN ep + 1 >= mxe ELSE it + 1 >= mxi

\* A plausible slip: the callback is released only in the branch that evaluates.
releases_func_in_branch(ev, fired, raised) ==
    ev = "after_run" /\ fired /\ ~raised

\* Whether a handler reaches `del self._func` (line 84): after_run does, on
\* both branches, unless _do_eval raised before it.
releases_func(ev, fired, raised) ==
    ev = "after_run" /\ ~raised

\* ------------------------------------------------------------- the dataset
\* _filter_imgs' default min_size.
min_size == 32

Min(a, b) == IF a <= b THEN a ELSE b

\* Python's list indexing, from 0.
At(list, i) == list[i + 1]

\* The image sizes (width, height) of the annotations.
Shapes == {<<31, 40>>, <<40, 31>>, <<32, 40>>}

\* A data-info record as load_annotations returns it: the image's file and
\* size, and whether the pipeline finds a usable sample in it.  The keys
\* img_prefix and bbox_fields are not in it (unset).
Unset == <<"unset">>
DataInfo(file, shape, ok) ==
    [file |-> file, width |-> shape[1], height |-> shape[2], ok |-> ok,
     img_prefix |-> Unset, bbox_fields |-> Unset]

\* A plausible slip: the maximum of the two sizes is compared.
keeps_img_max(img_info) ==
    (IF img_info.width >= img_info.height THEN img_info.width
     ELSE img_info.height) >= min_size

\* The test of _filter_imgs (line 73).
keeps_img(img_info) ==
    Min(img_info.width, img_info.height) >= min_size

\* _filter_imgs: the loop over enumerate(self.data_infos) from index i on.
RECURSIVE filter_from(_, _)
filter_from(infos, i) ==
    IF i >= Len(infos) THEN <<>>
    ELSE (IF keeps_img(At(infos, i)) THEN <<i>> ELSE <<>>)
         \o filter_from(infos, i + 1)

filter_imgs(infos) == filter_from(infos, 0)

\* CustomDataset.__init__, lines 41-46: the records the dataset keeps.
init_data_infos(infos, tm) ==
    IF ~tm
    THEN LET valid_inds == filter_imgs(infos)
         IN [j \in 1..Len(valid_inds) |-> At(infos, valid_inds[j])]
    ELSE infos

\* A plausible slip: the same index is tried again.
rand_another_same(idx, n) == {idx}

\* _rand_another: what np.random.choice(len(self)) can return.
rand_another(idx, n) == 0..(n - 1)

\* A plausible slip: the retry loop does not look at test_mode.
getitem_retries_always(tm, isNone) == isNone

\* __getitem__: whether it goes round its loop again on the data
\* prepare_img returned.
getitem_retries(tm, isNone) == ~tm /\ isNone

\* pre_pipeline on the dict `results`.
pre_pipeline(results, prefix) ==
    [results EXCEPT !.img_prefix = <<prefix>>, !.bbox_fields = <<>>]

\* A pipeline step that loads the boxes appends their key to bbox_fields.
load_step(results) ==
    [results EXCEPT !.bbox_fields =
        IF @ = Unset THEN @ ELSE Append(@, "gt_bboxes")]

\* What the pipeline returns for the dict it worked on: None for a sample it
\* finds invalid, else the sample.
NoneData == [none |-> TRUE, file |-> -1, bbox_fields |-> <<>>]
pipeline_result(results) ==
    IF results.ok
    THEN [none |-> FALSE, file |-> results.file,
          bbox_fields |-> results.bbox_fields]
    ELSE NoneData

\* ------------------------------------------------------------------- state
VARIABLES
    by_epoch,    \* EvalHook.by_epoch, the same on every worker
    period,      \* EvalHook._period, the same on every worker
    max_iter,    \* runner.max_iter
    max_epoch,   \* runner.max_epoch
    ws,          \* world size: workers 1..ws run, the others are off
    iter,        \* runner.iter of each worker
    epoch,       \* runner.epoch of each worker
    pc,          \* where each worker's runner is
    ret,         \* for a worker inside synchronize(): the handler it is in and
                 \* where its runner goes when the handler returns
    func,        \* whether the hook still holds self._func
    returns,     \* the callback given to each hook: what it can return
    storage,     \* runner.storage of each worker: the published scalars
    evalLog,     \* the invocations of the callback: the unit and the handler
    lastRes,     \* what the callback returned last (index in Results, 0: never)
    nsync,       \* how many times the worker has called synchronize()
    exc,         \* the last exception raised on the worker
    run_end,     \* how the run's after_run ended: pending, returned, raised
    late,        \* lifecycle events delivered after the run ended
    train_ok,    \* no training step of the worker has failed
    test_mode,   \* CustomDataset.test_mode
    loaded,      \* what load_annotations returned
    data_infos,  \* CustomDataset.data_infos
    built,       \* whether __init__ has returned
    callers,     \* the threads that read the dataset
    tpc,         \* where each caller is in __getitem__
    req,         \* the index the caller asked for
    idx,         \* __getitem__'s idx
    nprep,       \* prepare_img calls of the current __getitem__ (2: two or more)
    data         \* what prepare_img returned last

hookVars == <<by_epoch, period, max_iter, max_epoch, ws, iter, epoch, pc, ret,
              func, returns, storage, evalLog, lastRes, nsync, exc, run_end, late,
              train_ok>>

dataVars == <<test_mode, loaded, data_infos, built, callers, tpc, req, idx,
              nprep, data>>

vars == <<hookVars, dataVars>>

Threads == {1, 2}
ImgPrefix == "val2017/"

Active == 1..ws
Events == {"after_val_iter", "after_val_epoch", "after_run"}
NoRet == [pc |-> "none", ev |-> "none"]

\* The hooks and runners of a world of n workers, as constructed.
Constructed(n) ==
    /\ ws = n
    /\ by_epoch \in BOOLEAN
    /\ max_epoch = IF by_epoch THEN max_iter ELSE 1
    /\ iter = [w \in Workers |-> 0]
    /\ epoch = [w \in Workers |-> 0]
    /\ pc = [w \in Workers |-> IF w <= ws THEN "train" ELSE "off"]
    /\ ret = [w \in Workers |-> NoRet]
    /\ func = [w \in Workers |-> w <= ws]
    /\ storage = [w \in Workers |-> {}]
    /\ evalLog = [w \in Workers |-> <<>>]
    /\ lastRes = [w \in Workers |-> 0]
    /\ nsync = [w \in Workers |-> 0]
    /\ exc = [w \in Workers |-> NoExc]
    /\ run_end = [w \in Workers |-> "pending"]
    /\ late = [w \in Workers |-> 0]
    /\ train_ok = [w \in Workers |-> TRUE]

\* No dataset is read.
DataOff ==
    /\ test_mode = TRUE
    /\ loaded = <<>>
    /\ data_infos = <<>>
    /\ built = FALSE
    /\ callers = {}
    /\ tpc = [t \in Threads |-> "idle"]
    /\ req = [t \in Threads |-> 0]
    /\ idx = [t \in Threads |-> 0]
    /\ nprep = [t \in Threads |-> 0]
    /\ data = [t \in Threads |-> NoneData]

HookInit ==
    /\ DataOff
    /\ period \in 0..MaxPeriod
    /\ max_iter \in 1..MaxUnits
    /\ returns = [w \in Workers |-> AnyFunc]
    /\ Constructed(1)

\* Worker 1 evaluates; the others all do, or are all given the no-op.
DistInit ==
    /\ DataOff
    /\ period \in 0..DistPeriod
    /\ max_iter \in 1..DistUnits
    /\ \E f \in {NoOpFunc, EvalFunc} :
          returns = [w \in Workers |-> IF w = 1 THEN EvalFunc ELSE f]
    /\ \E n \in 2..NWorkers : Constructed(n)

\* Whether the handler of event ev calls _do_eval on worker w now.
Fires(w, ev) ==
    CASE ev = "after_val_iter" ->
            after_val_iter(by_epoch, period, iter[w], max_iter)
      [] ev = "after_val_epoch" ->
            after_val_epoch(by_epoch, period, epoch[w], max_epoch)
      [] ev = "after_run" ->
            after_run(by_epoch, epoch[w], max_epoch, iter[w], max_iter)

\* The iteration or epoch (counted from 1) a handler runs after.
Unit(w) == IF by_epoch THEN epoch[w] + 1 ELSE iter[w] + 1

\* The runner delivers event ev to the hook of worker w.  cont is where the
\* runner goes when the handler returns, abortTo when it raises.
Deliver(w, ev, cont, abortTo) ==
    LET fired == Fires(w, ev)
    IN \E ri \in (IF fired /\ func[w] THEN returns[w] ELSE {0}) :
        LET invoked == ri # 0
            out == IF invoked
                   THEN do_eval(Results[ri], storage[w])
                   ELSE [exc |-> IF fired
                                 THEN Raise("AttributeError", "_func", NoLeaf)
                                 ELSE NoExc,
                         storage |-> storage[w], synchronize |-> FALSE]
            raised == out.exc.type # "none"
            waits == ~raised /\ out.synchronize
            \* `del self._func` reached without passing the barrier
            delNow == ~raised /\ ~waits /\ releases_func(ev, fired, FALSE)
            delFails == delNow /\ ~func[w]
            fails == raised \/ delFails
        IN /\ evalLog' = [evalLog EXCEPT ![w] =
                  IF invoked THEN Append(@, [k |-> Unit(w), by |-> ev]) ELSE @]
           /\ lastRes' = [lastRes EXCEPT ![w] = IF invoked THEN ri ELSE @]
           /\ storage' = [storage EXCEPT ![w] = out.storage]
           /\ nsync' = [nsync EXCEPT ![w] = IF waits THEN @ + 1 ELSE @]
           /\ exc' = [exc EXCEPT ![w] =
                  IF raised THEN out.exc
                  ELSE IF delFails THEN Raise("AttributeError", "_func", NoLeaf)
                  ELSE @]
           /\ func' = [func EXCEPT ![w] = IF delNow THEN FALSE ELSE @]
           /\ pc' = [pc EXCEPT ![w] =
                  IF fails THEN abortTo ELSE IF waits THEN "barrier" ELSE cont]
           /\ ret' = [ret EXCEPT ![w] =
                  IF waits THEN [pc |-> cont, ev |-> ev] ELSE NoRet]
           /\ run_end' = [run_end EXCEPT ![w] =
                  IF ev # "after_run" \/ waits \/ @ # "pending" THEN @
                  ELSE IF fails THEN "raised" ELSE "returned"]

\* ----------------------------------------------------------------- actions
\* One training iteration (epoch, in by-epoch mode); a failure ends the loop
\* and the runner goes on to after_run.
Train(w) ==
    /\ pc[w] = "train"
    /\ UNCHANGED dataVars
    /\ \E ok \in BOOLEAN :
          /\ pc' = [pc EXCEPT ![w] = IF ok THEN "val_iter" ELSE "after_run"]
          /\ exc' = [exc EXCEPT ![w] =
                 IF ok THEN @ ELSE Raise("TrainError", "", NoLeaf)]
          /\ train_ok' = [train_ok EXCEPT ![w] = ok]
    /\ UNCHANGED <<by_epoch, period, max_iter, max_epoch, ws, iter, epoch, ret,
                   func, returns, storage, evalLog, lastRes, nsync, run_end,
                   late>>

AfterValIter(w) ==
    /\ pc[w] = "val_iter"
    /\ UNCHANGED dataVars
    /\ Deliver(w, "after_val_iter",
               IF by_epoch THEN "val_epoch" ELSE "advance", "after_run")
    /\ UNCHANGED <<by_epoch, period, max_iter, max_epoch, ws, iter, epoch,
                   returns, late, train_ok>>

AfterValEpoch(w) ==
    /\ pc[w] = "val_epoch"
    /\ UNCHANGED dataVars
    /\ Deliver(w, "after_val_epoch", "advance", "after_run")
    /\ UNCHANGED <<by_epoch, period, max_iter, max_epoch, ws, iter, epoch,
                   returns, late, train_ok>>

\* The loop's step: the next iteration (epoch), or the end of the loop with
\* the counters at the last one.
Advance(w) ==
    /\ pc[w] = "advance"
    /\ UNCHANGED dataVars
    /\ LET more == IF by_epoch THEN epoch[w] + 1 < max_epoch
                   ELSE iter[w] + 1 < max_iter
       IN /\ pc' = [pc EXCEPT ![w] = IF more THEN "train" ELSE "after_run"]
          /\ iter' = [iter EXCEPT ![w] = IF more THEN @ + 1 ELSE @]
          /\ epoch' = [epoch EXCEPT ![w] = IF more /\ by_epoch THEN @ + 1 ELSE @]
    /\ UNCHANGED <<by_epoch, period, max_iter, max_epoch, ws, ret, func, returns,
                   storage, evalLog, lastRes, nsync, exc, run_end, late,
                   train_ok>>

AfterRun(w) ==
    /\ pc[w] = "after_run"
    /\ UNCHANGED dataVars
    /\ Deliver(w, "after_run", "done", "done")
    /\ UNCHANGED <<by_epoch, period, max_iter, max_epoch, ws, iter, epoch,
                   returns, late, train_ok>>

\* dist_comm.synchronize() returns once every worker of the world has called
\* it as often as this one; the handler then goes on (after_run: to its del).
Release(w) ==
    /\ pc[w] = "barrier"
    /\ UNCHANGED dataVars
    /\ \A v \in Active : nsync[v] >= nsync[w]
    /\ LET del == releases_func(ret[w].ev, TRUE, FALSE)
       IN /\ func' = [func EXCEPT ![w] = IF del THEN FALSE ELSE @]
          /\ run_end' = [run_end EXCEPT ![w] =
                 IF ret[w].ev = "after_run" /\ @ = "pending" THEN "returned"
                 ELSE @]
    /\ pc' = [pc EXCEPT ![w] = ret[w].pc]
    /\ ret' = [ret EXCEPT ![w] = NoRet]
    /\ UNCHANGED <<by_epoch, period, max_iter, max_epoch, ws, iter, epoch,
                   returns, storage, evalLog, lastRes, nsync, exc, late,
                   train_ok>>

\* A lifecycle event delivered to the hook after its run ended.
LateEvent(w) ==
    /\ pc[w] = "done"
    /\ UNCHANGED dataVars
    /\ late[w] < MaxLate
    /\ late' = [late EXCEPT ![w] = @ + 1]
    /\ \E ev \in Events : Deliver(w, ev, "done", "done")
    /\ UNCHANGED <<by_epoch, period, max_iter, max_epoch, ws, iter, epoch,
                   returns, train_ok>>

HookNext ==
    \E w \in Workers :
        \/ Train(w)
        \/ AfterValIter(w)
        \/ AfterValEpoch(w)
        \/ Advance(w)
        \/ AfterRun(w)
        \/ Release(w)
        \/ LateEvent(w)

\* The steps of a run: the runner never delivers an event after after_run.
RunNext ==
    \E w \in Workers :
        \/ Train(w)
        \/ AfterValIter(w)
        \/ AfterValEpoch(w)
        \/ Advance(w)
        \/ AfterRun(w)
        \/ Release(w)

Spec == HookInit /\ [][HookNext]_vars

DistSpec == DistInit /\ [][RunNext]_vars /\ WF_vars(RunNext)

\* ------------------------------------------------------- the dataset's steps
\* No hook runs.
HookOff ==
    /\ period = 0
    /\ max_iter = 1
    /\ returns = [w \in Workers |-> NoOpFunc]
    /\ by_epoch = FALSE
    /\ max_epoch = 1
    /\ ws = 0
    /\ iter = [w \in Workers |-> 0]
    /\ epoch = [w \in Workers |-> 0]
    /\ pc = [w \in Workers |-> "off"]
    /\ ret = [w \in Workers |-> NoRet]
    /\ func = [w \in Workers |-> FALSE]
    /\ storage = [w \in Workers |-> {}]
    /\ evalLog = [w \in Workers |-> <<>>]
    /\ lastRes = [w \in Workers |-> 0]
    /\ nsync = [w \in Workers |-> 0]
    /\ exc = [w \in Workers |-> NoExc]
    /\ run_end = [w \in Workers |-> "pending"]
    /\ late = [w \in Workers |-> 0]
    /\ train_ok = [w \in Workers |-> TRUE]

\* __init__ has run up to line 41: the annotations are loaded.
Loaded(who) ==
    /\ HookOff
    /\ test_mode \in BOOLEAN
    /\ \E n \in 0..MaxRecords :
          \E sh \in [1..n -> Shapes], ok \in [1..n -> BOOLEAN] :
              loaded = [i \in 1..n |-> DataInfo(i - 1, sh[i], ok[i])]
    /\ data_infos = loaded
    /\ built = FALSE
    /\ callers = who
    /\ tpc = [t \in Threads |-> "idle"]
    /\ req = [t \in Threads |-> 0]
    /\ idx = [t \in Threads |-> 0]
    /\ nprep = [t \in Threads |-> 0]
    /\ data = [t \in Threads |-> NoneData]

DataInit == Loaded({1})

ConcInit == Loaded({1, 2})

\* __init__, lines 43-49.
Construct ==
    /\ ~built
    /\ built' = TRUE
    /\ data_infos' = init_data_infos(data_infos, test_mode)
    /\ UNCHANGED <<test_mode, loaded, callers, tpc, req, idx, nprep, data>>
    /\ UNCHANGED hookVars

\* __len__.
len == Len(data_infos)

\* A caller enters __getitem__(i).
Call(t, i) ==
    /\ built
    /\ t \in callers
    /\ tpc[t] = "idle"
    /\ i \in 0..(len - 1)
    /\ tpc' = [tpc EXCEPT ![t] = "prepare"]
    /\ req' = [req EXCEPT ![t] = i]
    /\ idx' = [idx EXCEPT ![t] = i]
    /\ UNCHANGED <<test_mode, loaded, data_infos, built, callers, nprep, data>>
    /\ UNCHANGED hookVars

\* prepare_img, lines 112-113: `results` is the stored record itself, and
\* pre_pipeline writes into it.
Prepare(t) ==
    /\ tpc[t] = "prepare"
    /\ data_infos' = [data_infos EXCEPT ![idx[t] + 1] = pre_pipeline(@, ImgPrefix)]
    /\ nprep' = [nprep EXCEPT ![t] = IF @ < 2 THEN @ + 1 ELSE @]
    /\ tpc' = [tpc EXCEPT ![t] = "pipeline"]
    /\ UNCHANGED <<test_mode, loaded, built, callers, req, idx, data>>
    /\ UNCHANGED hookVars

\* prepare_img, line 114: the pipeline's steps work on `results`.
PipelineLoad(t) ==
    /\ tpc[t] = "pipeline"
    /\ data_infos' = [data_infos EXCEPT ![idx[t] + 1] = load_step(@)]
    /\ tpc' = [tpc EXCEPT ![t] = "collect"]
    /\ UNCHANGED <<test_mode, loaded, built, callers, req, idx, nprep, data>>
    /\ UNCHANGED hookVars

\* The pipeline returns, and __getitem__ returns its data or goes round.
PipelineEnd(t) ==
    /\ tpc[t] = "collect"
    /\ LET d == pipeline_result(At(data_infos, idx[t]))
       IN /\ data' = [data EXCEPT ![t] = d]
          /\ tpc' = [tpc EXCEPT ![t] =
                 IF getitem_retries(test_mode, d.none) THEN "rand" ELSE "returned"]
    /\ UNCHANGED <<test_mode, loaded, data_infos, built, callers, req, idx, nprep>>
    /\ UNCHANGED hookVars

\* idx = self._rand_another(idx) drawing j.
RandPick(t, j) ==
    /\ tpc[t] = "rand"
    /\ j \in rand_another(idx[t], len)
    /\ idx' = [idx EXCEPT ![t] = j]
    /\ tpc' = [tpc EXCEPT ![t] = "prepare"]
    /\ UNCHANGED <<test_mode, loaded, data_infos, built, callers, req, nprep, data>>
    /\ UNCHANGED hookVars

RandAnother(t) == \E j \in 0..(len - 1) : RandPick(t, j)

\* The caller takes the data; it may call again.
Return(t) ==
    /\ tpc[t] = "returned"
    /\ tpc' = [tpc EXCEPT ![t] = "idle"]
    /\ req' = [req EXCEPT ![t] = 0]
    /\ idx' = [idx EXCEPT ![t] = 0]
    /\ nprep' = [nprep EXCEPT ![t] = 0]
    /\ data' = [data EXCEPT ![t] = NoneData]
    /\ UNCHANGED <<test_mode, loaded, data_infos, built, callers>>
    /\ UNCHANGED hookVars

\* A step of __getitem__ other than the random draw.
GetStep(t) == Prepare(t) \/ PipelineLoad(t) \/ PipelineEnd(t)

DataNext ==
    \/ Construct
    \/ \E t \in Threads :
          \/ \E i \in 0..(MaxRecords - 1) : Call(t, i)
          \/ Prepare(t)
          \/ PipelineLoad(t)
          \/ PipelineEnd(t)
          \/ RandAnother(t)
          \/ Return(t)

\* Every step of a call is taken in the end, and the uniform draw of
\* np.random.choice returns every index again and again.
DataFair ==
    \A t \in Threads :
        /\ WF_vars(GetStep(t))
        /\ \A j \in 0..(MaxRecords - 1) : SF_vars(RandPick(t, j))

DataSpec == DataInit /\ [][DataNext]_vars /\ DataFair

ConcSpec == ConcInit /\ [][DataNext]_vars

\* ================================================================ the claims
\* The run of worker w has completed: every iteration ran and after_run
\* returned, with no exception on the way.
Complete(w) ==
    pc[w] = "done" /\ run_end[w] = "returned" /\ exc[w].type = "none"

\* The positions in worker w's log of the invocations made by handler ev.
LogBy(w, ev) == {i \in 1..Len(evalLog[w]) : evalLog[w][i].by = ev}
UnitsBy(w, ev) == {evalLog[w][i].k : i \in LogBy(w, ev)}

C2_IterSchedule ==
    \A w \in Workers :
        (Complete(w) /\ ~by_epoch) =>
            /\ UnitsBy(w, "after_val_iter")
                  = {k \in 1..(max_iter - 1) : period > 0 /\ k % period = 0}
            /\ LogBy(w, "after_val_epoch") = {}
            /\ LogBy(w, "after_run") = {Len(evalLog[w])}
            /\ Cardinality({i \in 1..Len(evalLog[w]) :
                               evalLog[w][i].k = max_iter}) = 1
            /\ evalLog[w][Len(evalLog[w])].k = max_iter
            /\ period = 0 => Len(evalLog[w]) = 1

\* A complete iteration-mode run of three iterations with period 0: one
\* evaluation, at the end.
C2_Witness ==
    /\ Complete(1) /\ ~by_epoch /\ period = 0 /\ max_iter = 3
    /\ evalLog[1] = <<[k |-> 3, by |-> "after_run"]>>

\* The callback result r is a mapping with a flattened value float() rejects.
HasNonFloat(r) ==
    /\ r.kind = "dict"
    /\ \E i \in 1..Len(flatten_results_dict(r.items)) :
          ~float_ok(flatten_results_dict(r.items)[i].val)

\* C3: a step in which the callback is invoked and returns a mapping with a
\* value that is not convertible to float raises a ValueError that names an
\* offending key and its value, leaves the metrics store as it was, and does
\* not reach the barrier.
C3_NonNumericFails ==
    [][\A w \in Workers :
          (/\ Len(evalLog'[w]) > Len(evalLog[w])
           /\ HasNonFloat(Results[lastRes'[w]])) =>
              /\ storage'[w] = storage[w]
              /\ nsync'[w] = nsync[w]
              /\ exc'[w].type = "ValueError"
              /\ LET flat == flatten_results_dict(Results[lastRes'[w]].items)
                 IN \E i \in 1..Len(flat) :
                       /\ flat[i].key = exc'[w].key
                       /\ flat[i].val = exc'[w].val
                       /\ ~float_ok(flat[i].val)]_vars

\* An evaluation that published its scalars, then one that returned a
\* mapping with a numeric value before the bad one, which raised.
C3_Witness ==
    /\ exc[1].type = "ValueError"
    /\ exc[1].key = "bbox/mAP"
    /\ lastRes[1] = 6
    /\ Len(evalLog[1]) = 2
    /\ storage[1] # {}

\* C5: a step in which the callback is invoked and returns an empty or
\* absent result publishes nothing, raises nothing and calls the barrier
\* once.
C5_EmptyResult ==
    [][\A w \in Workers :
          (/\ Len(evalLog'[w]) > Len(evalLog[w])
           /\ ~Truthy(Results[lastRes'[w]])) =>
              /\ storage'[w] = storage[w]
              /\ exc'[w] = exc[w]
              /\ nsync'[w] = nsync[w] + 1
              /\ pc'[w] = "barrier"]_vars

\* The first evaluation returned None: nothing in the store, and the worker
\* is in its first barrier.
C5_Witness ==
    /\ lastRes[1] = 1 /\ Len(evalLog[1]) = 1
    /\ storage[1] = {} /\ nsync[1] = 1 /\ pc[1] = "barrier"

NoAbort == \A w \in Active : exc[w].type = "none"
AllDone == \A w \in Active : pc[w] = "done"

C4_BarrierLeft ==
    \A w \in Workers :
        (w \in Active /\ pc[w] = "barrier")
            ~> (pc[w] # "barrier" \/ ~NoAbort)

ValidAt(i) == At(data_infos, i).ok

\* C7: in training mode a __getitem__ returns only a valid sample, the one of
\* its current index; every draw after an invalid sample gives an index in
\* [0, len) and goes back to prepare_img; and, when some retained index is
\* valid, every call returns in the end.
C7_RetryUntilValid ==
    /\ [](\A t \in Threads :
             (~test_mode /\ tpc[t] = "returned") =>
                 /\ ~data[t].none
                 /\ ValidAt(idx[t])
                 /\ data[t].file = At(data_infos, idx[t]).file)
    /\ [][\A t \in Threads :
             (tpc[t] = "rand" /\ tpc'[t] # "rand") =>
                 (idx'[t] \in 0..(len - 1) /\ tpc'[t] = "prepare")]_vars
    /\ \A t \in Threads :
          (/\ ~test_mode
           /\ tpc[t] = "prepare"
           /\ \E i \in 0..(len - 1) : ValidAt(i))
              ~> (tpc[t] = "returned")

\* get(0) on a training dataset whose index 0 is invalid has returned the
\* sample of index 1.
C7_Witness ==
    /\ ~test_mode /\ tpc[1] = "returned"
    /\ req[1] = 0 /\ ~ValidAt(0)
    /\ idx[1] = 1 /\ nprep[1] = 2
    /\ data[1].file = At(data_infos, 1).file

\* C8 as claimed: the records are as the constructor left them, and a caller
\* whose pipeline has appended its box field finds exactly that field in its
\* sample's context.
C8_ReadOnly ==
    built =>
        /\ data_infos = init_data_infos(loaded, test_mode)
        /\ \A t \in callers :
              tpc[t] = "collect" =>
                  At(data_infos, idx[t]).bbox_fields = <<"gt_bboxes">>

\* The positions of the loaded records that meet the minimum size.
Qualifying ==
    {i \in 1..Len(loaded) :
        loaded[i].width >= 32 /\ loaded[i].height >= 32}

\* C9: in non-test mode the retained records are the loaded records with
\* min(width, height) >= 32: each retained record is such a loaded record,
\* each such loaded record is retained, their order is that of loading with
\* none twice, and length() is their number.
C9_FilterExact ==
    (built /\ ~test_mode) =>
        /\ \A j \in 1..Len(data_infos) :
              \E i \in Qualifying :
                  /\ data_infos[j].file = loaded[i].file
                  /\ data_infos[j].width = loaded[i].width
                  /\ data_infos[j].height = loaded[i].height
                  /\ data_infos[j].ok = loaded[i].ok
        /\ \A i \in Qualifying :
              \E j \in 1..Len(data_infos) : data_infos[j].file = loaded[i].file
        /\ \A j, k \in 1..Len(data_infos) :
              j < k => data_infos[j].file < data_infos[k].file
        /\ len = Cardinality(Qualifying)

\* Two records loaded, the first too small: only the second is retained.
C9_Witness ==
    /\ built /\ ~test_mode
    /\ Len(loaded) = 2 /\ loaded[1].width = 31
    /\ Len(data_infos) = 1 /\ data_infos[1].file = 1

\* C10: in test mode a __getitem__(i) never draws another index, and returns
\* after one prepare_img, of the record at i, with what the pipeline gave for
\* it: None for an invalid sample.
C10_TestModeOnce ==
    \A t \in Threads :
        test_mode =>
            /\ tpc[t] # "rand"
            /\ tpc[t] = "returned" =>
                  /\ nprep[t] = 1
                  /\ idx[t] = req[t]
                  /\ data[t].none = ~ValidAt(req[t])
                  /\ ~data[t].none => data[t].file = At(data_infos, req[t]).file

\* get(1) in test mode has returned None, the pipeline's answer for an
\* invalid sample.
C10_Witness ==
    /\ test_mode /\ tpc[1] = "returned"
    /\ req[1] = 1 /\ data[1].none /\ nprep[1] = 1

====
